---- MODULE Spec2Model ----
(***************************************************************************)
(* Model of the polling scheduler, the reconciliation cycle, the transport *)
(* request, the operations, the box registry and the initialisation of the *)
(* Foxbox client library.                                                  *)
(*                                                                         *)
(*   app/js/lib/foxbox/foxbox.js   togglePolling, schedulePoll,            *)
(*                                 refreshServicesByPolling, getServices,  *)
(*                                 fetchServices, isSimilar, logout,       *)
(*                                 init, _initUserSession, _initDiscovery, *)
(*                                 selectBox, setServiceState,             *)
(*                                 performSetOperation, performGetOperation*)
(*   app/js/lib/foxbox.js          loadJSON, changeServiceState            *)
(*                                                                         *)
(* JavaScript runs every callback to completion and drains the promise     *)
(* reactions (microtasks) it enqueues before the next timer or I/O         *)
(* callback runs, so one action of the model is one callback together with *)
(* the promise reactions it triggers.                                      *)
(***************************************************************************)
EXTENDS Integers, Sequences, FiniteSets, TLC

VARIABLES
    isPollingEnabled,   \* this[p.isPollingEnabled]
    nextPollTimeout,    \* this[p.nextPollTimeout]: Null or a timer handle
    timers,             \* handles of the poll timers that are armed
    session,            \* this[p.settings].session is set (isLoggedIn)
    hub,                \* the services the box answers GET /services with
    cache,              \* the services database, keyed by service id
    pendingWrites,      \* db.setService calls issued and not yet completed
    cycles,             \* the calls of refreshServicesByPolling, by slot
    requests,           \* the other calls of loadJSON, by slot
    last,               \* what the cycle that settled last did
    reportedNew,        \* ids some settled cycle has reported as new
    callers,            \* the promises the operations returned, by slot
    pc,                 \* where init() is
    log,                \* the steps of init() that completed, in order
    search,             \* location.search, as its parts between the '&'
    watching,           \* the zeroconf watch of _initDiscovery is set
    boxes,              \* this[p.boxes]
    url,                \* this[p.settings].url
    ipaddrs,            \* this[p.settings].ipaddrs
    configured,         \* this[p.settings].configured
    proxy,              \* host and port cordovaHTTP was given
    confirmations,      \* callbacks cordovaHTTP has still to call
    did                 \* the last call outside the polling path

\* The state outside the polling path.
aside == <<callers, pc, log, search, watching, boxes, url, ipaddrs,
           configured, proxy, confirmations, did>>

vars == <<isPollingEnabled, nextPollTimeout, timers, session, hub, cache,
          pendingWrites, cycles, requests, last, reportedNew, aside>>

----------------------------------------------------------------------------
(* Bounds of the model. *)

\* Poll timers that may be armed at once.
MaxTimers == 2
\* Calls of refreshServicesByPolling that may be open at once.
MaxCycles == 2
\* db.setService calls that may be waiting for completion.
MaxPending == 2
\* Calls of loadJSON outside the polling cycle that may be open at once.
MaxRequests == 3
\* Service ids are 1..MaxId.
MaxId == 2
\* Length of the list the box answers with.
MaxHubLen == 2

Null == 0
TimerIds == 1..MaxTimers
Slots == 1..MaxCycles
RequestSlots == 1..MaxRequests
Ids == 1..MaxId

----------------------------------------------------------------------------
(* Values.  A state is <<>> (undefined) or <<m>> for a map m from keys to   *)
(* values.                                                                  *)

Keys == {"a", "b"}
Vals == {1, 2}
Maps == UNION {[D -> Vals] : D \in SUBSET Keys}
Undefined == <<>>
Obj(m) == <<m>>

\* The states that occur on the box and in the database at start.
HubStates == {Obj([a |-> 1]), Obj([a |-> 2])}
StoredStates == {Undefined, Obj([a |-> 1])}

\* A service as the box lists it.
HubServices == [id : Ids, adapter : {"p"}, state : HubStates]

\* A service record as the client holds it: the four fields fetchServices
\* builds (type, getters, setters, properties) are one field here.
Service(id, properties, state) ==
    [id |-> id, properties |-> properties, state |-> state]

RECURSIVE SeqsUpTo(_, _)
SeqsUpTo(S, n) ==
    IF n = 0 THEN {<<>>}
    ELSE LET shorter == SeqsUpTo(S, n - 1)
         IN  shorter \cup {Append(s, x) : s \in {q \in shorter : Len(q) = n - 1},
                                          x \in S}

HubLists == SeqsUpTo(HubServices, MaxHubLen)

Absent == [id |-> 0, properties |-> "", state |-> Undefined]
InitCaches ==
    [Ids -> {Absent}] \cup
    {[i \in Ids |-> IF i \in D THEN Service(i, "p", f[i]) ELSE Absent] :
        D \in SUBSET Ids \ {{}}, f \in [Ids -> StoredStates]}

----------------------------------------------------------------------------
(* isSimilar(objectA, objectB): every property of A is in B with the same   *)
(* value.  `for (prop in undefined)` runs no iteration; `prop in undefined` *)
(* throws a TypeError.                                                      *)

isSimilarThrows(objectA, objectB) ==
    /\ objectA # Undefined
    /\ DOMAIN objectA[1] # {}
    /\ objectB = Undefined

isSimilar(objectA, objectB) ==
    \/ objectA = Undefined
    \/ /\ ~isSimilarThrows(objectA, objectB)
       /\ \A prop \in DOMAIN objectA[1] :
            /\ prop \in DOMAIN objectB[1]
            /\ objectA[1][prop] = objectB[1][prop]

\* An object as the sequence of its properties <<name, value>> in the order
\* for-in enumerates them; a value is <<type, v>>, and two values are
\* strictly equal when both parts are.
In(prop, object) == \E j \in 1..Len(object) : object[j][1] = prop
Get(object, prop) ==
    object[CHOOSE j \in 1..Len(object) : object[j][1] = prop][2]

\* isSimilar that tests the first property only.
isSimilarFirst(objectA, objectB, i) ==
    \/ i > Len(objectA)
    \/ /\ In(objectA[i][1], objectB)
       /\ objectA[i][2] = Get(objectB, objectA[i][1])

RECURSIVE isSimilarFrom(_, _, _)
\* The loop of lines 37-43 from the i-th property of objectA on.
isSimilarFrom(objectA, objectB, i) ==
    IF i > Len(objectA)
    THEN TRUE
    ELSE IF ~In(objectA[i][1], objectB)
            \/ objectA[i][2] # Get(objectB, objectA[i][1])
    THEN FALSE
    ELSE isSimilarFrom(objectA, objectB, i + 1)

\* The objects of at most two properties named a and b, with the values
\* 1, 2 and '1'.
Values == {<<"number", 1>>, <<"number", 2>>, <<"string", 1>>}
Objects ==
    {<<>>}
    \cup {<<<<k, v>>>> : k \in Keys, v \in Values}
    \cup {o \in {<<<<k, v>>, <<l, w>>>> :
                     k \in Keys, l \in Keys, v \in Values, w \in Values} :
             o[1][1] # o[2][1]}

----------------------------------------------------------------------------
(* The database (db.js is not part of the sources at hand): a store keyed   *)
(* by service id whose reads and writes complete asynchronously, the writes *)
(* in the order they were issued.                                           *)

RECURSIVE CacheList(_, _)
\* db.getServices() followed by the map to service.data in getServices():
\* the stored services, by increasing id from id i on.
CacheList(c, i) ==
    IF i > MaxId THEN <<>>
    ELSE IF c[i] = Absent THEN CacheList(c, i + 1)
    ELSE <<c[i]>> \o CacheList(c, i + 1)

getServices(c) == CacheList(c, 1)

\* db.setService(service) once it has completed.
setService(c, service) == [c EXCEPT ![service.id] = service]

----------------------------------------------------------------------------
(* fetchServices: the .then of lines 426-436 keeps id, adapter (as type),   *)
(* getters, setters and properties of each listed service; the record it    *)
(* builds has no state property.                                            *)

fetchServices(services) ==
    [i \in 1..Len(services) |->
        Service(services[i].id, services[i].adapter, Undefined)]

----------------------------------------------------------------------------
(* The reducer of refreshServicesByPolling (lines 288-312) and the          *)
(* service-change dispatch after it (lines 314-318).                        *)

\* storedServices.find(s => s.id === id): the index of the first match, or 0.
Find(storedServices, id) ==
    LET hits == {i \in 1..Len(storedServices) : storedServices[i].id = id}
    IN  IF hits = {} THEN 0 ELSE CHOOSE i \in hits : \A j \in hits : i <= j

\* Object.assign(target, source): the properties source has overwrite the
\* target's, the others survive.
Assign(target, source) ==
    Service(source.id, source.properties,
            IF source.state # Undefined THEN source.state ELSE target.state)

StateChange(service) == [type |-> "service-state-change", data |-> <<service>>]
ServiceChange(services) == [type |-> "service-change", data |-> services]

\* The reducer's callback returning hasNewServices as it got it.
ReduceStepForgetsNew(acc, fetchedService) ==
    LET at == Find(acc.stored, fetchedService.id)
        isExistingService == at # 0
        storedService == acc.stored[at]
    IN  IF isExistingService
           /\ isSimilar(fetchedService.state, storedService.state)
        THEN acc
        ELSE LET service == IF isExistingService
                            THEN Assign(storedService, fetchedService)
                            ELSE fetchedService
             IN  [acc EXCEPT !.events = Append(@, StateChange(service)),
                             !.writes = Append(@, service)]

\* The reducer's callback without the early return of lines 296-299.
ReduceStepNoSkip(acc, fetchedService) ==
    LET at == Find(acc.stored, fetchedService.id)
        isExistingService == at # 0
        service == IF isExistingService
                   THEN Assign(acc.stored[at], fetchedService)
                   ELSE fetchedService
    IN  [acc EXCEPT !.hasNewServices = @ \/ ~isExistingService,
                    !.events = Append(@, StateChange(service)),
                    !.writes = Append(@, service)]

\* One call of the reducer's callback.  acc carries hasNewServices, what
\* was dispatched and written so far, the stored services (Object.assign
\* mutates the stored service it merges into) and whether a call threw.
ReduceStep(acc, fetchedService) ==
    LET at == Find(acc.stored, fetchedService.id)
        isExistingService == at # 0
        storedService == acc.stored[at]
    IN  IF acc.threw THEN acc
        ELSE IF isExistingService
                /\ isSimilarThrows(fetchedService.state, storedService.state)
        THEN [acc EXCEPT !.threw = TRUE]
        ELSE IF isExistingService
                /\ isSimilar(fetchedService.state, storedService.state)
        THEN acc
        ELSE LET service == IF isExistingService
                            THEN Assign(storedService, fetchedService)
                            ELSE fetchedService
             IN  [hasNewServices |-> acc.hasNewServices \/ ~isExistingService,
                  events |-> Append(acc.events, StateChange(service)),
                  writes |-> Append(acc.writes, service),
                  stored |-> IF isExistingService
                             THEN [acc.stored EXCEPT ![at] = service]
                             ELSE acc.stored,
                  threw  |-> FALSE]

RECURSIVE ReduceFrom(_, _, _)
ReduceFrom(acc, fetchedServices, i) ==
    IF i > Len(fetchedServices) THEN acc
    ELSE ReduceFrom(ReduceStep(acc, fetchedServices[i]), fetchedServices, i + 1)

\* The same without the comparison of the lengths of line 315.
ReconcileNoLength(storedServices, fetchedServices) ==
    LET r == ReduceFrom([hasNewServices |-> FALSE, events |-> <<>>,
                         writes |-> <<>>, stored |-> storedServices,
                         threw |-> FALSE],
                        fetchedServices, 1)
    IN  IF ~r.threw /\ r.hasNewServices
        THEN [r EXCEPT !.events = Append(r.events, ServiceChange(fetchedServices))]
        ELSE r

\* The .then of lines 287-321 that dispatches service-change every time.
ReconcileAlways(storedServices, fetchedServices) ==
    LET r == ReduceFrom([hasNewServices |-> FALSE, events |-> <<>>,
                         writes |-> <<>>, stored |-> storedServices,
                         threw |-> FALSE],
                        fetchedServices, 1)
    IN  IF ~r.threw
        THEN [r EXCEPT !.events = Append(r.events, ServiceChange(fetchedServices))]
        ELSE r

\* The .then of lines 287-321 on [storedServices, fetchedServices].
Reconcile(storedServices, fetchedServices) ==
    LET r == ReduceFrom([hasNewServices |-> FALSE, events |-> <<>>,
                         writes |-> <<>>, stored |-> storedServices,
                         threw |-> FALSE],
                        fetchedServices, 1)
    IN  IF ~r.threw /\ (r.hasNewServices
                        \/ Len(fetchedServices) # Len(storedServices))
        THEN [r EXCEPT !.events = Append(r.events, ServiceChange(fetchedServices))]
        ELSE r

----------------------------------------------------------------------------
(* loadJSON (lib/foxbox.js, lines 22-60).  One call is a record:            *)
(*   promise      the promise loadJSON returned: "pending", "resolved" or   *)
(*                "rejected"                                                *)
(*   value        what it resolved with                                     *)
(*   settles      calls of its resolve and reject so far                    *)
(*   hasTimedOut  the flag of line 39                                       *)
(*   timeout      the timer of line 40 is armed                             *)
(*   fetch        fetch(req): "none" (no call), "pending", "response" (a    *)
(*                response came) or "failed" (it rejected)                  *)

NoCall ==
    [promise |-> "pending", value |-> <<>>, settles |-> 0,
     hasTimedOut |-> FALSE, timeout |-> FALSE, fetch |-> "none"]

\* Lines 38-45: the timer is armed and the request sent.
loadJSON == [NoCall EXCEPT !.timeout = TRUE, !.fetch = "pending"]

\* resolve(value) and reject(error) of a promise: the first call decides.
Resolve(call, value) ==
    [call EXCEPT !.promise = IF @ = "pending" THEN "resolved" ELSE @,
                 !.value = IF call.promise = "pending" THEN value ELSE @,
                 !.settles = @ + 1]

Reject(call) ==
    [call EXCEPT !.promise = IF @ = "pending" THEN "rejected" ELSE @,
                 !.settles = @ + 1]

\* The .then of lines 46-58 without the test of hasTimedOut.
onResponseLate(call, ok, json) ==
    IF ok
    THEN Resolve([call EXCEPT !.fetch = "response", !.timeout = FALSE], json)
    ELSE [call EXCEPT !.fetch = "response", !.timeout = FALSE]

\* The timer's callback, lines 40-43.
onTimeout(call) ==
    Reject([call EXCEPT !.timeout = FALSE, !.hasTimedOut = TRUE])

\* The .then of lines 46-58 on a response; json is its body.  The throw of
\* line 56 rejects the promise .then returned, which nothing observes.
onResponse(call, ok, json) ==
    IF call.hasTimedOut
    THEN [call EXCEPT !.fetch = "response"]
    ELSE IF ok
    THEN Resolve([call EXCEPT !.fetch = "response", !.timeout = FALSE], json)
    ELSE [call EXCEPT !.fetch = "response", !.timeout = FALSE]

\* fetch(req) rejects (a network failure): line 45 attaches no handler.
onNetworkFailure(call) == [call EXCEPT !.fetch = "failed"]

\* Nothing more can happen to the call.
Over(call) == call.fetch \in {"none", "response", "failed"} /\ ~call.timeout

----------------------------------------------------------------------------
(* State of one call of refreshServicesByPolling.                           *)
(*   phase        "free": no call; "inflight": its promise is pending       *)
(*   read         getServices(): "none", "pending" or "done"                *)
(*   stored       what getServices() resolved with                          *)
(*   dirty        db.setService calls were incomplete when it resolved      *)
(*   req          the loadJSON call of fetchServices                        *)
(*   after        a call had resolved before getServices() resolved         *)

FreeCycle ==
    [phase |-> "free", read |-> "none", stored |-> <<>>, dirty |-> FALSE,
     req |-> NoCall, after |-> FALSE]

\* refreshServicesByPolling, logged in (line 286): getServices() and
\* fetchServices() are called.
StartedCycle ==
    [FreeCycle EXCEPT !.phase = "inflight", !.read = "pending", !.req = loadJSON]

Outstanding(c) == cycles[c].phase = "inflight"

NoCycle ==
    [outcome |-> "none", stored |-> <<>>, raw |-> <<>>, fetched |-> <<>>,
     events |-> <<>>, writes |-> <<>>, renew |-> FALSE, dirty |-> FALSE,
     after |-> FALSE, once |-> FALSE]

\* Bookkeeping of last: once tells that a call of refreshServicesByPolling
\* resolved after reconciling before the call last describes settled, after
\* that one had when this call read the database.
Once == last.once \/ last.outcome = "ok"

----------------------------------------------------------------------------
(* schedulePoll and the settling of a cycle.                                *)

\* setTimeout returns a handle no armed timer has: the least one here.
FreshTimer(tms) ==
    CHOOSE t \in 1..(Cardinality(tms) + 1) :
        /\ t \notin tms
        /\ \A u \in 1..(Cardinality(tms) + 1) : u \notin tms => t <= u

\* schedulePoll without the test of isPollingEnabled.
schedulePollAlways(enabled, npt, tms) ==
    IF npt # Null
    THEN [nextPollTimeout |-> npt, timers |-> tms]
    ELSE [nextPollTimeout |-> FreshTimer(tms), timers |-> tms \cup {FreshTimer(tms)}]

\* schedulePoll(): the handle and the armed timers after the call.
schedulePoll(enabled, npt, tms) ==
    IF ~enabled \/ npt # Null
    THEN [nextPollTimeout |-> npt, timers |-> tms]
    ELSE [nextPollTimeout |-> FreshTimer(tms), timers |-> tms \cup {FreshTimer(tms)}]

\* The model stops where schedulePoll would arm more than MaxTimers timers.
CanSchedule(enabled, npt, tms) ==
    (enabled /\ npt = Null) => Cardinality(tms) < MaxTimers

\* The .then of lines 251-255: nextPollTimeout = null; schedulePoll().
Rearm(tms) ==
    /\ CanSchedule(isPollingEnabled, Null, tms)
    /\ nextPollTimeout' = schedulePoll(isPollingEnabled, Null, tms).nextPollTimeout
    /\ timers' = schedulePoll(isPollingEnabled, Null, tms).timers

----------------------------------------------------------------------------
(* Bounds of the state outside the polling path. *)

\* Operations of the dispatcher that may be open at once.
MaxOps == 2
\* Parts of location.search.
MaxParts == 2
\* Boxes a registry holds where selectBox is studied on its own.
MaxBoxes == 2
\* selectBox is called with an index of 0..MaxIndex.
MaxIndex == 2
\* Calls of cordovaHTTP that may wait for their callback.
MaxConfirmations == 2

OpSlots == 1..MaxOps

----------------------------------------------------------------------------
(* Strings are sequences of characters.                                     *)

Min(a, b) == IF a <= b THEN a ELSE b

\* String.prototype.substring(start, end), 0 <= start <= end.
substring(str, start, end) == SubSeq(str, start + 1, Min(end, Len(str)))

\* str.replace(/ /g, '+').
replaceSpaces(str) == [i \in 1..Len(str) |-> IF str[i] = " " THEN "+" ELSE str[i]]

\* 'session_token' and 'session_token='.
SessionToken == <<"s", "e", "s", "s", "i", "o", "n", "_", "t", "o", "k", "e", "n">>
SessionTokenParam == SessionToken \o <<"=">>

\* The parts a query string is made of here: '', 'a=1', 'session_token'
\* and 'session_token=X Z'.
Empty == <<>>
Parts ==
    {Empty, <<"a", "=", "1">>, SessionToken, SessionTokenParam \o <<"X", " ", "Z">>}

\* location.search.substring(1).split('&') of every query string of at most
\* MaxParts parts; the empty query string splits into one empty part.
Searches == SeqsUpTo(Parts, MaxParts) \ {<<>>}

\* parts.join('&') assigned to location.search and split again.
Rejoined(parts) == IF parts = <<>> THEN <<Empty>> ELSE parts

\* array.splice(i, 1), i counted from 1.
splice(array, i) == SubSeq(array, 1, i - 1) \o SubSeq(array, i + 1, Len(array))

----------------------------------------------------------------------------
(* _initUserSession, lines 166-191.  The result tells whether it returned   *)
(* (Promise.resolve(): "Continue") or threw after assigning location.search *)
(* ("Redirect"), what it stored in settings.session and the location.search *)
(* it left.                                                                 *)

NoToken == <<>>

\* The test of lines 173-174 on one part of the query string.
IsSessionPart(part) ==
    substring(part, 0, Len(SessionTokenParam)) = SessionToken

initUserSession(loggedIn, parts) ==
    LET found == {i \in 1..Len(parts) : IsSessionPart(parts[i])}
    IN  IF loggedIn \/ found = {}
        THEN [outcome |-> "Continue", stored |-> NoToken, search |-> parts]
        ELSE LET i == CHOOSE j \in found : \A k \in found : j <= k
             IN  [outcome |-> "Redirect",
                  stored |-> replaceSpaces(
                      substring(parts[i], 0, Len(SessionTokenParam))),
                  search |-> Rejoined(splice(parts, i))]

----------------------------------------------------------------------------
(* The box registry: _initDiscovery's callback (lines 124-132) and          *)
(* selectBox (lines 141-158).                                               *)

Boxes ==
    {[name |-> "x", port |-> 1, addresses |-> <<"h1">>],
     [name |-> "y", port |-> 2, addresses |-> <<"h2", "h3">>]}

NoUrl == <<>>
NoProxy == [host |-> "", port |-> 0]

\* `https://${box.txtRecord.name}:${box.port}`, line 151.
Origin(box) == <<"https://", box.name, ":", box.port>>

\* this[p.boxes].push(service), line 129.  The array is the one line 54
\* froze, so push throws a TypeError and the array stays as it is; the
\* callback ends there, before line 130.
push(array, service) == [threw |-> TRUE, array |-> array]

\* The settings selectBox reads and writes.
Settings(u, i, c) == [url |-> u, ipaddrs |-> i, configured |-> c]

\* selectBox(index) that leaves settings.configured as it is when the index
\* is out of range.
selectBoxKeepsFlag(array, index, settings) ==
    IF index >= Len(array)
    THEN [settings |-> settings, calls |-> <<>>, result |-> "out of range"]
    ELSE LET box == array[index + 1]
         IN  [settings |-> Settings(Origin(box), box.addresses, settings.configured),
              calls |-> <<[fn |-> "setProxyHost", arg |-> <<box.addresses[1]>>,
                           box |-> box, stale |-> FALSE]>>,
              result |-> "selected"]

\* selectBox(index): the settings after the call and the call of
\* cordovaHTTP it makes (line 153).  A call of cordovaHTTP is a record of
\* the function, its argument and the box of the closure; stale is
\* bookkeeping: selectBox has been called with an index out of range since
\* the call was made.
selectBox(array, index, settings) ==
    IF index >= Len(array)
    THEN [settings |-> [settings EXCEPT !.configured = FALSE], calls |-> <<>>,
          result |-> "out of range"]
    ELSE LET box == array[index + 1]
         IN  [settings |-> Settings(Origin(box), box.addresses, settings.configured),
              calls |-> <<[fn |-> "setProxyHost", arg |-> <<box.addresses[1]>>,
                           box |-> box, stale |-> FALSE]>>,
              result |-> "selected"]

\* The callback of setProxyHost, lines 153-157: it calls setProxyPort.
onProxyHostSet(call) ==
    <<[fn |-> "setProxyPort", arg |-> <<call.box.port>>, box |-> call.box,
       stale |-> call.stale]>>

\* The callback of setProxyPort, lines 154-156.  It is a `function`, so its
\* `this` is not the Foxbox (undefined in strict code): line 155 throws a
\* TypeError and settings.configured stays as it is.
onProxyPortSet(settings) == [settings |-> settings, result |-> "threw"]

----------------------------------------------------------------------------
(* The operations of the dispatcher and what their callers get.             *)

\* Bodies of the box's answers: none (null), or an object with a result.
Missing == <<>>
Reply(result) == <<[result |-> result]>>
Replies == {Missing, Reply(""), Reply("error"), Reply("success")}

\* Operations that hand the transport's promise to the caller (lines
\* 392-400 and 416-420) and operations that wrap it in a promise of their
\* own (lines 361-373; lib/foxbox.js, lines 118-129).
Passing == {"performSetOperation", "performGetOperation"}
Wrapping == {"setServiceState", "changeServiceState"}

NoCaller == [operation |-> "none", promise |-> "pending", value |-> Missing]

\* The test of line 366 (lib/foxbox.js, line 122).
IsSuccess(res) == res # Missing /\ res[1].result # "" /\ res[1].result = "success"

\* The promise of the caller of operation once its transport call is as
\* call says.  A wrapping operation has a handler for the call's success
\* only.
Outcome(operation, call) ==
    IF operation \in Passing
    THEN [operation |-> operation, promise |-> call.promise, value |-> call.value]
    ELSE IF call.promise = "resolved"
    THEN [operation |-> operation,
          promise |-> IF IsSuccess(call.value) THEN "resolved" ELSE "rejected",
          value |-> Missing]
    ELSE [operation |-> operation, promise |-> "pending", value |-> Missing]

Nothing == [op |-> "none", arg |-> <<>>, result |-> ""]

----------------------------------------------------------------------------
(* Actions.                                                                 *)

\* The state outside the polling path after the constructor, with the
\* location, the registry and settings.configured as the start finds them.
Constructed(searches, registries, flags) ==
    /\ callers = [r \in OpSlots |-> NoCaller]
    /\ pc = "new"
    /\ log = <<>>
    /\ search \in searches
    /\ watching = FALSE
    /\ boxes \in registries
    /\ url = NoUrl
    /\ ipaddrs = <<>>
    /\ configured \in flags
    /\ proxy = NoProxy
    /\ confirmations = <<>>
    /\ did = Nothing

\* The state after the constructor (lines 47-62), with the session, the
\* box's services and the database as the start finds them.
Constructor(sessions, hubs, caches) ==
    /\ isPollingEnabled = FALSE
    /\ nextPollTimeout = Null
    /\ timers = {}
    /\ session \in sessions
    /\ hub \in hubs
    /\ cache \in caches
    /\ pendingWrites = <<>>
    /\ cycles = [c \in Slots |-> FreeCycle]
    /\ requests = [r \in RequestSlots |-> NoCall]
    /\ last = NoCycle
    /\ reportedNew = {}

\* The same for the polling path on its own: no query string, no box.
Start(sessions, hubs, caches) ==
    /\ Constructor(sessions, hubs, caches)
    /\ Constructed({<<Empty>>}, {<<>>}, {FALSE})

\* A box that lists no service and an empty database; logged in or not.
Init == Start(BOOLEAN, {<<>>}, {[i \in Ids |-> Absent]})

\* A box with one service and an empty database; logged in or not.
InitSync ==
    Start(BOOLEAN,
          {<<[id |-> 1, adapter |-> "p", state |-> Obj([a |-> 1])]>>},
          {[i \in Ids |-> Absent]})

\* Every list of services and every database of the bounds; logged in.
InitRecon == Start({TRUE}, HubLists, InitCaches)

\* togglePolling(pollingEnabled), lines 222-232.
TogglePolling(pollingEnabled) ==
    /\ isPollingEnabled' = pollingEnabled
    /\ IF pollingEnabled
       THEN /\ CanSchedule(TRUE, nextPollTimeout, timers)
            /\ nextPollTimeout' =
                 schedulePoll(TRUE, nextPollTimeout, timers).nextPollTimeout
            /\ timers' = schedulePoll(TRUE, nextPollTimeout, timers).timers
       ELSE /\ timers' = timers \ {nextPollTimeout}
            /\ nextPollTimeout' = Null
    /\ UNCHANGED <<session, hub, cache, pendingWrites, cycles, requests, last,
                   reportedNew, aside>>

\* logout(), lines 212-214.
Logout ==
    /\ session
    /\ session' = FALSE
    /\ UNCHANGED <<isPollingEnabled, nextPollTimeout, timers, hub, cache,
                   pendingWrites, cycles, requests, last, reportedNew, aside>>

\* The .then of lines 287-321 on what getServices() and fetchServices()
\* resolved with, then the .catch and .then of lines 248-255.
Finish(c, storedServices, services, dirty) ==
    LET fetchedServices == fetchServices(services)
        r == Reconcile(storedServices, fetchedServices)
        newIds == {fetchedServices[i].id : i \in
                     {j \in 1..Len(fetchedServices) :
                        Find(storedServices, fetchedServices[j].id) = 0}}
    IN  /\ Len(pendingWrites) + Len(r.writes) <= MaxPending
        /\ pendingWrites' = pendingWrites \o r.writes
        /\ reportedNew' = reportedNew \cup newIds
        /\ last' = [outcome |-> IF r.threw THEN "failed" ELSE "ok",
                    stored |-> storedServices, raw |-> services,
                    fetched |-> fetchedServices, events |-> r.events,
                    writes |-> r.writes,
                    renew |-> newIds \cap reportedNew # {},
                    dirty |-> dirty,
                    after |-> IF cycles[c].read = "done"
                              THEN cycles[c].after ELSE Once,
                    once |-> Once]
        /\ cycles' = [cycles EXCEPT ![c] = FreeCycle]
        /\ Rearm(timers)
        /\ UNCHANGED <<isPollingEnabled, session, hub, cache, requests, aside>>

\* refreshServicesByPolling that goes on when nobody is logged in.
refreshAlways(loggedIn) == "pending"

\* Lines 267-269: what refreshServicesByPolling returns before any call is
\* made: a resolved promise when nobody is logged in, else the pending
\* promise of line 286.
refreshServicesByPolling(loggedIn) ==
    IF ~loggedIn THEN "resolved" ELSE "pending"

\* The callback of the poll timer, lines 246-256, up to the first
\* suspension of refreshServicesByPolling (lines 266-286).
TimerFire(t) ==
    /\ t \in timers
    /\ IF refreshServicesByPolling(session) = "resolved"
       THEN \* Promise.resolve(): the cycle settles at once.
            /\ Rearm(timers \ {t})
            /\ last' = [NoCycle EXCEPT !.outcome = "skipped", !.once = Once]
            /\ UNCHANGED cycles
       ELSE /\ \E c \in Slots :
                 /\ ~Outstanding(c)
                 /\ \A d \in Slots : ~Outstanding(d) => c <= d
                 /\ cycles' = [cycles EXCEPT ![c] = StartedCycle]
            /\ timers' = timers \ {t}
            /\ UNCHANGED <<nextPollTimeout, last>>
    /\ UNCHANGED <<isPollingEnabled, session, hub, cache, pendingWrites,
                   requests, reportedNew, aside>>

\* db.getServices() completes, lines 331-334.
DbReadDone(c) ==
    /\ Outstanding(c)
    /\ cycles[c].read = "pending"
    /\ IF cycles[c].req.promise = "resolved"
       THEN Finish(c, getServices(cache), cycles[c].req.value,
                   pendingWrites # <<>>)
       ELSE /\ cycles' = [cycles EXCEPT ![c].read = "done",
                                        ![c].stored = getServices(cache),
                                        ![c].dirty = pendingWrites # <<>>,
                                        ![c].after = Once]
            /\ UNCHANGED <<isPollingEnabled, nextPollTimeout, timers, session,
                           hub, cache, pendingWrites, requests, last,
                           reportedNew, aside>>

\* A db.setService call of line 307 completes.
DbWriteDone ==
    /\ pendingWrites # <<>>
    /\ cache' = setService(cache, Head(pendingWrites))
    /\ pendingWrites' = Tail(pendingWrites)
    /\ UNCHANGED <<isPollingEnabled, nextPollTimeout, timers, session, hub,
                   cycles, requests, last, reportedNew, aside>>

\* The request timer of the cycle's loadJSON call fires.  If that rejects
\* the call, Promise.all rejects, the .catch of line 248 logs and the .then
\* of line 251 runs; the late response changes nothing any more.
RequestTimeout(c) ==
    /\ Outstanding(c)
    /\ cycles[c].req.timeout
    /\ IF onTimeout(cycles[c].req).promise = "rejected"
       THEN /\ cycles' = [cycles EXCEPT ![c] = FreeCycle]
            /\ last' = [NoCycle EXCEPT !.outcome = "failed", !.once = Once]
            /\ Rearm(timers)
       ELSE /\ cycles' = [cycles EXCEPT ![c].req = onTimeout(@)]
            /\ UNCHANGED <<nextPollTimeout, timers, last>>
    /\ UNCHANGED <<isPollingEnabled, session, hub, cache, pendingWrites,
                   requests, reportedNew, aside>>

\* The box answers the cycle's request; ok tells whether the status is a
\* success.  The body is the list of the box's services.
Response(c, ok) ==
    /\ Outstanding(c)
    /\ cycles[c].req.fetch = "pending"
    /\ IF onResponse(cycles[c].req, ok, hub).promise = "resolved"
          /\ cycles[c].read = "done"
       THEN Finish(c, cycles[c].stored, onResponse(cycles[c].req, ok, hub).value,
                   cycles[c].dirty)
       ELSE /\ cycles' = [cycles EXCEPT ![c].req = onResponse(@, ok, hub)]
            /\ UNCHANGED <<isPollingEnabled, nextPollTimeout, timers, session,
                           hub, cache, pendingWrites, requests, last,
                           reportedNew, aside>>

\* The cycle's request fails on the network.
NetworkFailure(c) ==
    /\ Outstanding(c)
    /\ cycles[c].req.fetch = "pending"
    /\ cycles' = [cycles EXCEPT ![c].req = onNetworkFailure(@)]
    /\ UNCHANGED <<isPollingEnabled, nextPollTimeout, timers, session, hub,
                   cache, pendingWrites, requests, last, reportedNew, aside>>

\* The scheduler and its cycles.  With no service on the box no cycle
\* writes to the database, so no write is there to complete.
Next ==
    \/ \E b \in BOOLEAN : TogglePolling(b)
    \/ Logout
    \/ \E t \in TimerIds : TimerFire(t)
    \/ \E c \in Slots : DbReadDone(c)
    \/ \E c \in Slots : RequestTimeout(c)
    \/ \E c \in Slots, ok \in BOOLEAN : Response(c, ok)
    \/ \E c \in Slots : NetworkFailure(c)

Spec == Init /\ [][Next]_vars

\* The same with a service on the box, and the writes of the cycles.
NextSync ==
    \/ \E b \in BOOLEAN : TogglePolling(b)
    \/ Logout
    \/ \E t \in TimerIds : TimerFire(t)
    \/ \E c \in Slots : DbReadDone(c)
    \/ DbWriteDone
    \/ \E c \in Slots : RequestTimeout(c)
    \/ \E c \in Slots, ok \in BOOLEAN : Response(c, ok)
    \/ \E c \in Slots : NetworkFailure(c)

SyncSpec == InitSync /\ [][NextSync]_vars

\* Polling is switched on and stays on, and the user stays logged in.
NextRecon ==
    \/ TogglePolling(TRUE)
    \/ \E t \in TimerIds : TimerFire(t)
    \/ \E c \in Slots : DbReadDone(c)
    \/ DbWriteDone
    \/ \E c \in Slots : RequestTimeout(c)
    \/ \E c \in Slots, ok \in BOOLEAN : Response(c, ok)
    \/ \E c \in Slots : NetworkFailure(c)

ReconSpec == InitRecon /\ [][NextRecon]_vars

----------------------------------------------------------------------------
(* The transport alone: calls of loadJSON by any caller.                    *)

Others == <<isPollingEnabled, nextPollTimeout, timers, session, hub, cache,
            pendingWrites, cycles, last, reportedNew, aside>>

\* A caller calls loadJSON; the record of a call that is over is dropped.
CallLoadJSON(r) ==
    /\ Over(requests[r])
    /\ requests' = [requests EXCEPT ![r] = loadJSON]
    /\ UNCHANGED Others

CallTimeout(r) ==
    /\ requests[r].timeout
    /\ requests' = [requests EXCEPT ![r] = onTimeout(@)]
    /\ UNCHANGED Others

CallResponse(r, ok) ==
    /\ requests[r].fetch = "pending"
    /\ requests' = [requests EXCEPT ![r] = onResponse(@, ok, hub)]
    /\ UNCHANGED Others

CallNetworkFailure(r) ==
    /\ requests[r].fetch = "pending"
    /\ requests' = [requests EXCEPT ![r] = onNetworkFailure(@)]
    /\ UNCHANGED Others

NextTransport ==
    \/ \E r \in RequestSlots : CallLoadJSON(r)
    \/ \E r \in RequestSlots : CallTimeout(r)
    \/ \E r \in RequestSlots, ok \in BOOLEAN : CallResponse(r, ok)
    \/ \E r \in RequestSlots : CallNetworkFailure(r)

TransportSpec == InitSync /\ [][NextTransport]_vars

----------------------------------------------------------------------------
(* Fairness: an armed timer fires, and a database operation that was        *)
(* issued completes.  Nothing makes the box answer.                         *)

Fairness ==
    /\ WF_vars(\E t \in TimerIds : TimerFire(t))
    /\ WF_vars(DbWriteDone)
    /\ \A c \in Slots : WF_vars(DbReadDone(c)) /\ WF_vars(RequestTimeout(c))

LiveSpec == ReconSpec /\ Fairness

----------------------------------------------------------------------------
(* The operations of the dispatcher over the transport.  An operation has   *)
(* a kind whose typ is not 'Binary', so that it is sent with fetchJSON.     *)

OthersOfOps ==
    <<isPollingEnabled, nextPollTimeout, timers, session, hub, cache,
      pendingWrites, cycles, last, reportedNew, pc, log, search, watching,
      boxes, url, ipaddrs, configured, proxy, confirmations, did>>

\* The caller calls the operation, which sends its request.
Perform(r, operation) ==
    /\ Over(requests[r])
    /\ requests' = [requests EXCEPT ![r] = loadJSON]
    /\ callers' = [callers EXCEPT ![r] = Outcome(operation, loadJSON)]
    /\ UNCHANGED OthersOfOps

OpTimeout(r) ==
    /\ callers[r].operation # "none"
    /\ requests[r].timeout
    /\ requests' = [requests EXCEPT ![r] = onTimeout(@)]
    /\ callers' = [callers EXCEPT ![r] = Outcome(@.operation, onTimeout(requests[r]))]
    /\ UNCHANGED OthersOfOps

\* The box answers; ok tells whether the status is a success, json is the
\* body.
OpResponse(r, ok, json) ==
    /\ callers[r].operation # "none"
    /\ requests[r].fetch = "pending"
    /\ requests' = [requests EXCEPT ![r] = onResponse(@, ok, json)]
    /\ callers' = [callers EXCEPT ![r] =
                     Outcome(@.operation, onResponse(requests[r], ok, json))]
    /\ UNCHANGED OthersOfOps

OpNetworkFailure(r) ==
    /\ callers[r].operation # "none"
    /\ requests[r].fetch = "pending"
    /\ requests' = [requests EXCEPT ![r] = onNetworkFailure(@)]
    /\ callers' = [callers EXCEPT ![r] =
                     Outcome(@.operation, onNetworkFailure(requests[r]))]
    /\ UNCHANGED OthersOfOps

NextOps ==
    \/ \E r \in OpSlots, operation \in Passing \cup Wrapping : Perform(r, operation)
    \/ \E r \in OpSlots : OpTimeout(r)
    \/ \E r \in OpSlots, ok \in BOOLEAN, json \in Replies : OpResponse(r, ok, json)
    \/ \E r \in OpSlots : OpNetworkFailure(r)

OpsSpec == InitSync /\ [][NextOps]_vars

----------------------------------------------------------------------------
(* init() (lines 64-90), the discovery callback and selectBox.              *)

polling == <<isPollingEnabled, nextPollTimeout, timers, session, hub, cache,
             pendingWrites, cycles, requests, last, reportedNew>>

\* The chain of init() that went on after a redirect.
initChainPastRedirect(outcome, skipDiscovery) ==
    [pc |-> "net", log |-> <<"session", "discovery">>, watching |-> ~skipDiscovery]

\* init() up to its first suspension: _initUserSession() throws (line 186)
\* and init() with it, or it resolves, _initDiscovery() runs (line 69) and
\* net.init() is called (line 72).
initChain(outcome, skipDiscovery) ==
    IF outcome = "Redirect"
    THEN [pc |-> "redirected", log |-> <<>>, watching |-> FALSE]
    ELSE [pc |-> "net", log |-> <<"session", "discovery">>, watching |-> ~skipDiscovery]

\* init() is called; skipDiscovery is the setting of line 121.
CallInit(skipDiscovery) ==
    LET r == initUserSession(session, search)
        c == initChain(r.outcome, skipDiscovery)
    IN  /\ pc = "new"
        /\ session' = IF r.outcome = "Redirect" THEN r.stored # NoToken ELSE session
        /\ search' = r.search
        /\ pc' = c.pc
        /\ log' = c.log
        /\ watching' = c.watching
        /\ did' = [op |-> "_initUserSession", arg |-> <<r.stored>>,
                   result |-> r.outcome]
        /\ UNCHANGED <<isPollingEnabled, nextPollTimeout, timers, hub, cache,
                       pendingWrites, cycles, requests, last, reportedNew,
                       callers, boxes, url, ipaddrs, configured, proxy,
                       confirmations>>

\* The promise of net.init() settles; resolved, db.init() is called (line
\* 76), rejected, the chain ends.
NetInitDone(ok) ==
    /\ pc = "net"
    /\ pc' = IF ok THEN "db" ELSE "failed"
    /\ log' = IF ok THEN Append(log, "net") ELSE log
    /\ UNCHANGED <<polling, callers, search, watching, boxes, url, ipaddrs,
                   configured, proxy, confirmations, did>>

\* The promise of db.init() settles; resolved, the .then of lines 78-89
\* listens to the setting and calls togglePolling with its value.
DbInitDone(ok, pollingEnabled) ==
    /\ pc = "db"
    /\ IF ok
       THEN /\ pc' = "done"
            /\ log' = log \o <<"db", "polling">>
            /\ isPollingEnabled' = pollingEnabled
            /\ IF pollingEnabled
               THEN /\ CanSchedule(TRUE, nextPollTimeout, timers)
                    /\ nextPollTimeout' =
                         schedulePoll(TRUE, nextPollTimeout, timers).nextPollTimeout
                    /\ timers' = schedulePoll(TRUE, nextPollTimeout, timers).timers
               ELSE /\ timers' = timers \ {nextPollTimeout}
                    /\ nextPollTimeout' = Null
       ELSE /\ pc' = "failed"
            /\ UNCHANGED <<log, isPollingEnabled, nextPollTimeout, timers>>
    /\ UNCHANGED <<session, hub, cache, pendingWrites, cycles, requests, last,
                   reportedNew, callers, search, watching, boxes, url, ipaddrs,
                   configured, proxy, confirmations, did>>

\* The setting pollingEnabled changes: the listener of lines 80-82.
SettingsPollingEnabled(pollingEnabled) ==
    /\ pc = "done"
    /\ TogglePolling(pollingEnabled)

\* The callback of the zeroconf watch, lines 124-132.
Discovered(action, service) ==
    LET pushed == push(boxes, service)
        r == selectBox(pushed.array, 0, Settings(url, ipaddrs, configured))
    IN  /\ watching
        /\ IF action = "added" /\ ~pushed.threw
           THEN /\ Len(confirmations) + Len(r.calls) <= MaxConfirmations
                /\ boxes' = pushed.array
                /\ url' = r.settings.url
                /\ ipaddrs' = r.settings.ipaddrs
                /\ configured' = r.settings.configured
                /\ confirmations' = confirmations \o r.calls
           ELSE UNCHANGED <<boxes, url, ipaddrs, configured, confirmations>>
        /\ did' = [op |-> "discovered", arg |-> <<action, service>>,
                   result |-> IF action = "added" /\ pushed.threw
                              THEN "threw" ELSE "ok"]
        /\ UNCHANGED <<polling, callers, pc, log, search, watching, proxy>>

\* The calls of cordovaHTTP that wait, after selectBox returned result.
Waiting(calls, result) ==
    IF result = "out of range"
    THEN [i \in 1..Len(calls) |-> [calls[i] EXCEPT !.stale = TRUE]]
    ELSE calls

\* selectBox(index) is called.
SelectBox(index) ==
    LET r == selectBox(boxes, index, Settings(url, ipaddrs, configured))
    IN  /\ Len(confirmations) + Len(r.calls) <= MaxConfirmations
        /\ url' = r.settings.url
        /\ ipaddrs' = r.settings.ipaddrs
        /\ configured' = r.settings.configured
        /\ confirmations' = Waiting(confirmations, r.result) \o r.calls
        /\ did' = [op |-> "selectBox", arg |-> <<index>>, result |-> r.result]
        /\ UNCHANGED <<polling, callers, pc, log, search, watching, boxes, proxy>>

\* cordovaHTTP has set the host and calls the callback of line 153.
HostConfirmed(i) ==
    /\ i \in 1..Len(confirmations)
    /\ confirmations[i].fn = "setProxyHost"
    /\ proxy' = [proxy EXCEPT !.host = confirmations[i].arg[1]]
    /\ confirmations' = splice(confirmations, i) \o onProxyHostSet(confirmations[i])
    /\ did' = [op |-> "setProxyHost",
               arg |-> <<confirmations[i].box, confirmations[i].stale>>,
               result |-> "ok"]
    /\ UNCHANGED <<polling, callers, pc, log, search, watching, boxes, url,
                   ipaddrs, configured>>

\* cordovaHTTP has set the port and calls the callback of line 154.
PortConfirmed(i) ==
    LET r == onProxyPortSet(Settings(url, ipaddrs, configured))
    IN  /\ i \in 1..Len(confirmations)
        /\ confirmations[i].fn = "setProxyPort"
        /\ proxy' = [proxy EXCEPT !.port = confirmations[i].arg[1]]
        /\ confirmations' = splice(confirmations, i)
        /\ url' = r.settings.url
        /\ ipaddrs' = r.settings.ipaddrs
        /\ configured' = r.settings.configured
        /\ did' = [op |-> "setProxyPort",
                   arg |-> <<confirmations[i].box, confirmations[i].stale>>,
                   result |-> r.result]
        /\ UNCHANGED <<polling, callers, pc, log, search, watching, boxes>>

\* The library from its construction: init(), the events of the discovery
\* and the calls of selectBox.  The registry never holds a box (see push),
\* so no call of cordovaHTTP is made and none is confirmed.
InitBoot ==
    /\ Constructor(BOOLEAN, {<<>>}, {[i \in Ids |-> Absent]})
    /\ Constructed(Searches, {<<>>}, BOOLEAN)

NextBoot ==
    \/ \E skipDiscovery \in BOOLEAN : CallInit(skipDiscovery)
    \/ \E ok \in BOOLEAN : NetInitDone(ok)
    \/ \E ok \in BOOLEAN, pollingEnabled \in BOOLEAN : DbInitDone(ok, pollingEnabled)
    \/ \E pollingEnabled \in BOOLEAN : SettingsPollingEnabled(pollingEnabled)
    \/ \E action \in {"added", "removed"}, service \in Boxes : Discovered(action, service)
    \/ \E index \in 0..MaxIndex : SelectBox(index)

BootSpec == InitBoot /\ [][NextBoot]_vars

\* selectBox and the callbacks of cordovaHTTP on every registry of at most
\* MaxBoxes boxes: the empty one of the constructor, and the ones the
\* discovery callback is written to build.
Registries == SeqsUpTo(Boxes, MaxBoxes)

InitSelect ==
    /\ Constructor({TRUE}, {<<>>}, {[i \in Ids |-> Absent]})
    /\ Constructed({<<Empty>>}, Registries, BOOLEAN)

NextSelect ==
    \/ \E index \in 0..MaxIndex : SelectBox(index)
    \/ \E i \in 1..MaxConfirmations : HostConfirmed(i)
    \/ \E i \in 1..MaxConfirmations : PortConfirmed(i)

SelectSpec == InitSelect /\ [][NextSelect]_vars

\* isSimilar on its own: it is called on every two objects.
Compare(objectA, objectB) ==
    /\ did' = [op |-> "isSimilar", arg |-> <<objectA, objectB>>,
               result |-> IF isSimilarFrom(objectA, objectB, 1)
                          THEN "true" ELSE "false"]
    /\ UNCHANGED <<polling, callers, pc, log, search, watching, boxes, url,
                   ipaddrs, configured, proxy, confirmations>>

NextSimilar == \E objectA \in Objects, objectB \in Objects : Compare(objectA, objectB)

SimilarSpec == InitSync /\ [][NextSimilar]_vars

----------------------------------------------------------------------------
(* The polling scheduler.                                                   *)

OutstandingCycles == {c \in Slots : Outstanding(c)}

\* C1: at most one reconciliation cycle is outstanding at any time, and a
\* poll timer is armed only when no cycle is outstanding and no other poll
\* timer is pending.
C1_SingleFlight ==
    /\ Cardinality(OutstandingCycles) <= 1
    /\ timers # {} => OutstandingCycles = {} /\ Cardinality(timers) = 1

\* C2: togglePolling(false) cancels every pending poll timer: while polling
\* is disabled no poll timer is armed, so no reconciliation cycle starts
\* until togglePolling(true) is called again.
C2_DisableCancels == ~isPollingEnabled => timers = {}

\* A step in which a cycle settles: the promise of an outstanding call
\* settles, or the timer fires while logged out and the call returns a
\* resolved promise.
CycleSettles ==
    \/ \E c \in Slots : Outstanding(c) /\ cycles'[c].phase # "inflight"
    \/ ~session /\ \E t \in TimerIds : TimerFire(t)

\* The timers the settling leaves armed besides the one it may arm.
TimersLeft ==
    IF \E t \in TimerIds : TimerFire(t)
    THEN Cardinality(timers) - 1
    ELSE Cardinality(timers)

\* C3: when a reconciliation cycle settles, succeeded or failed, a new poll
\* timer is armed if and only if polling is enabled at that moment: if
\* enabled the handle is that of an armed timer and one more timer is
\* armed, if disabled the handle is null and no timer is armed.
C3_RearmIffEnabled ==
    [][CycleSettles =>
         IF isPollingEnabled
         THEN /\ nextPollTimeout' \in timers'
              /\ Cardinality(timers') = TimersLeft + 1
         ELSE /\ nextPollTimeout' = Null
              /\ Cardinality(timers') = TimersLeft]_vars

\* C3 witness: a cycle has failed, polling is enabled and the handle is that
\* of an armed timer.
C3_Witness ==
    /\ last.outcome = "failed"
    /\ isPollingEnabled
    /\ nextPollTimeout \in timers

\* C4: while polling stays enabled every started cycle eventually settles
\* and a poll timer is armed again, whatever the box answers.
C4_CycleSettles ==
    \A c \in Slots :
        Outstanding(c) ~> (~Outstanding(c) /\ nextPollTimeout \in timers)

\* C5: the database writes of one cycle have completed before the next
\* cycle reads the database, and no cycle reports as new a service an
\* earlier cycle has reported as new and written.
C5_WritesBeforeNextRead == ~last.dirty /\ ~last.renew

----------------------------------------------------------------------------
(* The reconciliation of the cycle that settled last.                       *)

IsStateChange(e) == e.type = "service-state-change"
IsServiceChange(e) == e.type = "service-change"
StateChanges == SelectSeq(last.events, IsStateChange)
ServiceChanges == SelectSeq(last.events, IsServiceChange)

\* No stored service has the id of s.
LastIsNew(s) == Find(last.stored, s.id) = 0
CarriesNew(e) == LastIsNew(e.data[1])
NewEntries == SelectSeq(last.fetched, LastIsNew)

IdsOf(services) == {services[i].id : i \in 1..Len(services)}
Positions(services) == 1..Len(services)

\* C6: for a service on the box and in the database whose state on the box
\* is not subset-equal to the stored state, exactly one service-state-change
\* event carries the merged record, the merged record is written, and no
\* service-change event is dispatched when the counts are equal and no
\* service is new.
C6_ChangedStateDispatched ==
    last.outcome = "ok" =>
        /\ \A i \in Positions(last.raw) :
             LET h == last.raw[i]
                 at == Find(last.stored, h.id)
                 merged == Assign(last.stored[at],
                                  Service(h.id, h.adapter, h.state))
             IN  (/\ at # 0
                  /\ last.stored[at].state # Undefined
                  /\ ~isSimilar(h.state, last.stored[at].state))
                 => /\ Cardinality({k \in Positions(last.events) :
                                      last.events[k] = StateChange(merged)}) = 1
                    /\ \E w \in Positions(last.writes) : last.writes[w] = merged
        /\ (/\ \A i \in Positions(last.raw) : Find(last.stored, last.raw[i].id) # 0
            /\ Len(last.raw) = Len(last.stored))
           => ServiceChanges = <<>>

\* C7: every fetched service whose id matches no stored service gets one
\* service-state-change event carrying it and one write, in the order of the
\* fetched list, and a cycle with such a service dispatches service-change
\* exactly once; with nothing stored and one fetched service the events are
\* that service's service-state-change, then service-change.
C7_NewServices ==
    last.outcome = "ok" =>
        /\ SelectSeq(StateChanges, CarriesNew) =
             [i \in Positions(NewEntries) |-> StateChange(NewEntries[i])]
        /\ SelectSeq(last.writes, LastIsNew) = NewEntries
        /\ NewEntries # <<>> => Len(ServiceChanges) = 1
        /\ (last.stored = <<>> /\ Len(last.fetched) = 1)
           => last.events = <<StateChange(last.fetched[1]),
                              ServiceChange(last.fetched)>>

\* C7 witness: a cycle found nothing stored, fetched one service and
\* dispatched two events.
C7_Witness ==
    /\ last.outcome = "ok"
    /\ last.stored = <<>>
    /\ Len(last.fetched) = 1
    /\ Len(last.events) = 2

\* The fetched service at i has a stored service with its id and a state
\* subset-equal to the stored one.
Unchanged(i) ==
    LET at == Find(last.stored, last.fetched[i].id)
    IN  /\ at # 0
        /\ ~isSimilarThrows(last.fetched[i].state, last.stored[at].state)
        /\ isSimilar(last.fetched[i].state, last.stored[at].state)

\* C8: a fetched service with a stored service of its id and a state
\* subset-equal to the stored state causes no event and no write; a cycle
\* whose fetched services are all such and as many as the stored ones
\* dispatches no event and writes nothing.
C8_UnchangedSilent ==
    last.outcome = "ok" =>
        /\ \A i \in Positions(last.fetched) :
             Unchanged(i) =>
                /\ \A k \in Positions(StateChanges) :
                     StateChanges[k].data[1].id # last.fetched[i].id
                /\ \A w \in Positions(last.writes) :
                     last.writes[w].id # last.fetched[i].id
        /\ (/\ \A i \in Positions(last.fetched) : Unchanged(i)
            /\ Len(last.fetched) = Len(last.stored))
           => last.events = <<>> /\ last.writes = <<>>

\* C8 witness: a cycle fetched services, as many as were stored, and
\* dispatched nothing.
C8_Witness ==
    /\ last.outcome = "ok"
    /\ last.fetched # <<>>
    /\ Len(last.fetched) = Len(last.stored)
    /\ \A i \in Positions(last.fetched) : Unchanged(i)
    /\ last.events = <<>>

\* C9: a cycle dispatches service-change at most once, after its
\* service-state-change events, carrying the fetched list; it does so iff a
\* fetched service was new or the counts differ, which for a fetched list
\* with distinct ids is iff the fetched ids differ from the stored ids.
C9_ServiceChange ==
    last.outcome = "ok" =>
        /\ Len(ServiceChanges) <= 1
        /\ \A k \in Positions(last.events) :
             IsServiceChange(last.events[k]) =>
                /\ k = Len(last.events)
                /\ last.events[k].data = last.fetched
        /\ Len(ServiceChanges) = 1 <=>
             \/ \E i \in Positions(last.fetched) : LastIsNew(last.fetched[i])
             \/ Len(last.fetched) # Len(last.stored)
        /\ Cardinality(IdsOf(last.fetched)) = Len(last.fetched) =>
             (Len(ServiceChanges) = 1 <=>
                IdsOf(last.fetched) # IdsOf(last.stored))

\* C9 witness: a cycle dispatched two service-state-change events and then
\* service-change.
C9_Witness ==
    /\ last.outcome = "ok"
    /\ Len(last.events) = 3
    /\ IsStateChange(last.events[1])
    /\ IsStateChange(last.events[2])
    /\ IsServiceChange(last.events[3])

----------------------------------------------------------------------------
(* The transport.                                                           *)

\* C10: a call whose timer fired before the response is rejected, the
\* response that comes later is not delivered, and the call's promise is
\* settled once.
C10_TimeoutIsFinal ==
    \A r \in RequestSlots :
        /\ requests[r].hasTimedOut =>
             requests[r].promise = "rejected" /\ requests[r].value = <<>>
        /\ requests[r].settles <= 1

\* C10 witness: the timer of a call fired and its response came afterwards.
C10_Witness ==
    \E r \in RequestSlots :
        requests[r].hasTimedOut /\ requests[r].fetch = "response"

----------------------------------------------------------------------------
(* The transport and the operations over it.                                *)

\* The box answered the call with a status that is not a success.
HttpError(call) ==
    call.fetch = "response" /\ ~call.hasTimedOut /\ call.promise # "resolved"

\* C11: every call of loadJSON settles: resolved on a response with a
\* success status, rejected on a response with another status, rejected when
\* the request timer fires first; no call that is over is left pending.
C11_EveryRequestSettles ==
    \A r \in RequestSlots :
        /\ requests[r].hasTimedOut => requests[r].promise = "rejected"
        /\ HttpError(requests[r]) => requests[r].promise = "rejected"
        /\ (Over(requests[r]) /\ requests[r].fetch # "none") =>
               requests[r].promise # "pending"

\* The transport call failed: it timed out, or it got an HTTP error.
Failed(call) == call.promise = "rejected" \/ HttpError(call)

\* C12: the promise performSetOperation, setServiceState or
\* changeServiceState returned is rejected whenever the transport call of
\* the operation failed.
C12_FailuresSurface ==
    \A r \in OpSlots :
        (/\ callers[r].operation \in {"performSetOperation", "setServiceState",
                                      "changeServiceState"}
         /\ Failed(requests[r]))
            => callers[r].promise = "rejected"

\* C13: performSetOperation and performGetOperation report success only for
\* an answer that says 'success', and report failure for an answer that is
\* missing or says anything else.
C13_OnlyExplicitSuccess ==
    \A r \in OpSlots :
        callers[r].operation \in Passing =>
            /\ callers[r].promise = "resolved" => IsSuccess(callers[r].value)
            /\ (requests[r].promise = "resolved" /\ ~IsSuccess(requests[r].value))
                   => callers[r].promise = "rejected"

----------------------------------------------------------------------------
(* The box registry.                                                        *)

\* C14: selectBox(index) with index >= the number of boxes sets
\* settings.configured to false and changes neither settings.url nor the
\* host and port of the transport; configured then goes back to true only
\* in the callback of a call of cordovaHTTP that a later selectBox made.
C14_OutOfRange ==
    [][/\ (did'.op = "selectBox" /\ did'.result = "out of range")
            => ~configured' /\ url' = url /\ proxy' = proxy
       /\ (~configured /\ configured')
            => \E i \in 1..Len(confirmations) :
                   PortConfirmed(i) /\ ~confirmations[i].stale]_vars

\* selectBox was called with the index just past the last box and
\* settings.configured is false.
C14_Witness ==
    /\ did.op = "selectBox"
    /\ did.result = "out of range"
    /\ did.arg = <<Len(boxes)>>
    /\ ~configured

ActiveIsListed == url # NoUrl => \E i \in 1..Len(boxes) : url = Origin(boxes[i])

\* C16: a discovery event 'added' appends the box to the registry, which
\* grows by one and never shrinks; box 0 is selected if no box was active,
\* and an active box, its origin and the transport's host and port are left
\* alone; the active box is always one of the registry.
C16_AddedAppends ==
    [][/\ Len(boxes') >= Len(boxes)
       /\ ActiveIsListed'
       /\ (did'.op = "discovered" /\ did'.arg[1] = "added")
            => /\ boxes' = Append(boxes, did'.arg[2])
               /\ url = NoUrl => url' = Origin(boxes'[1])
               /\ url # NoUrl => url' = url /\ proxy' = proxy]_vars

----------------------------------------------------------------------------
(* The session and init().                                                  *)

\* The parts of the query string that are session_token=<value>.
TokenParts(parts) ==
    {i \in 1..Len(parts) :
        /\ Len(parts[i]) >= Len(SessionTokenParam)
        /\ SubSeq(parts[i], 1, Len(SessionTokenParam)) = SessionTokenParam}

\* The value of the part session_token=<value>.
TokenOf(part) == SubSeq(part, Len(SessionTokenParam) + 1, Len(part))

\* No part of the query string is session_token, with or without a value.
NoTokenPart(parts) ==
    \A i \in 1..Len(parts) :
        Len(parts[i]) < Len(SessionToken)
        \/ SubSeq(parts[i], 1, Len(SessionToken)) # SessionToken

\* C17: not logged in and with session_token=XYZ in the query string,
\* _initUserSession stores the token, strips the parameter from the URL and
\* redirects; logged in, or with no session_token in the query string, it
\* continues and changes neither the session nor the URL.
C17_SessionResolution ==
    [][(pc = "new" /\ pc' # "new") =>
          /\ (~session /\ TokenParts(search) # {}) =>
                LET i == CHOOSE j \in TokenParts(search) :
                             \A k \in TokenParts(search) : j <= k
                IN  /\ did'.result = "Redirect"
                    /\ session'
                    /\ did'.arg[1] \in {TokenOf(search[i]),
                                        replaceSpaces(TokenOf(search[i]))}
                    /\ search' = Rejoined(splice(search, i))
          /\ (session \/ NoTokenPart(search)) =>
                /\ did'.result = "Continue"
                /\ session' = session
                /\ search' = search]_vars

\* The steps of init() in their order.
InitOrder == <<"session", "discovery", "net", "db", "polling">>

\* C19: when _initUserSession redirects, no discovery is set up, neither
\* net.init() nor db.init() is called and polling is not started; else the
\* steps of init() complete in their order and polling is enabled only
\* after all of them.
C19_InitOrder ==
    [][/\ (pc = "new" /\ pc' # "new" /\ did'.result = "Redirect")
            => pc' = "redirected"
       /\ pc' = "redirected"
            => log' = <<>> /\ ~watching' /\ ~isPollingEnabled' /\ timers' = {}
       /\ log' = SubSeq(InitOrder, 1, Len(log'))
       /\ (isPollingEnabled' \/ timers' # {}) => log' = InitOrder]_vars

\* init() was called with the session token in the URL and no session.
C19_Witness ==
    /\ pc = "redirected"
    /\ did.op = "_initUserSession"
    /\ did.result = "Redirect"
    /\ session

----------------------------------------------------------------------------
(* isSimilar.                                                               *)

\* Every property of objectA is a property of objectB with the same value.
SubObject(objectA, objectB) ==
    \A i \in 1..Len(objectA) : \E j \in 1..Len(objectB) : objectB[j] = objectA[i]

\* The objects with the properties of object in any order.
Reorderings(object) ==
    {o \in Objects : Len(o) = Len(object) /\ SubObject(object, o)}

\* C18: isSimilar(A, B) is true exactly when every property of A is in B
\* with a strictly equal value, whatever the order of the properties of A
\* and of B; for A with fewer properties than B and all of them in B,
\* isSimilar(A, B) is true and isSimilar(B, A) is false.
C18_SubsetEquality ==
    did.op = "isSimilar" =>
        LET objectA == did.arg[1]
            objectB == did.arg[2]
        IN  /\ did.result = "true" <=> SubObject(objectA, objectB)
            /\ \A a \in Reorderings(objectA), b \in Reorderings(objectB) :
                   isSimilarFrom(a, b, 1) <=> did.result = "true"
            /\ (SubObject(objectA, objectB) /\ Len(objectA) < Len(objectB))
                   => did.result = "true" /\ ~isSimilarFrom(objectB, objectA, 1)

\* isSimilar was called on an object of one property and an object that
\* has this property last of two, and returned true.
C18_Witness ==
    /\ did.op = "isSimilar"
    /\ Len(did.arg[1]) = 1
    /\ Len(did.arg[2]) = 2
    /\ did.arg[2][2] = did.arg[1][1]
    /\ did.result = "true"

----------------------------------------------------------------------------
(* Polling while logged out.                                                *)

\* C20: a poll timer that fires while nobody is logged in makes no request
\* and starts no cycle, dispatches no event, writes nothing to the database
\* and settles at once: the scheduler has a timer armed after it if polling
\* is enabled, and none of its own if it is not.
C20_LoggedOutCycle ==
    [][(~session /\ \E t \in TimerIds : TimerFire(t)) =>
          /\ cycles' = cycles
          /\ requests' = requests
          /\ pendingWrites' = pendingWrites
          /\ cache' = cache
          /\ last'.outcome = "skipped"
          /\ last'.events = <<>>
          /\ last'.writes = <<>>
          /\ isPollingEnabled => nextPollTimeout' # Null /\ nextPollTimeout' \in timers'
          /\ ~isPollingEnabled => nextPollTimeout' = Null /\ timers' \subseteq timers]_vars

\* A timer fired while nobody was logged in, and the next one is armed.
C20_Witness ==
    /\ ~session
    /\ last.outcome = "skipped"
    /\ isPollingEnabled
    /\ nextPollTimeout \in timers

----------------------------------------------------------------------------
(* Convergence of the reconciliation.                                       *)

\* The cycle that settled last reconciled, after reading the database when
\* an earlier cycle had reconciled and every write issued had completed.
Repeated == last.outcome = "ok" /\ last.after /\ ~last.dirty

\* C21: a cycle that runs after an earlier cycle against the same list of
\* the box, once the writes of that one have completed, dispatches no
\* service-state-change and no service-change event and writes nothing to
\* the database.
C21_Converges == Repeated => last.events = <<>> /\ last.writes = <<>>

\* C21 as amended: such a cycle dispatches no service-state-change event
\* and writes nothing; it dispatches one service-change event when the list
\* of the box and the database differ in length, and none when they do not.
C21_ConvergesButForLength ==
    Repeated =>
        /\ StateChanges = <<>>
        /\ last.writes = <<>>
        /\ Len(ServiceChanges) =
               IF Len(last.fetched) # Len(last.stored) THEN 1 ELSE 0

\* Such a cycle found a service an earlier cycle had added, found fewer
\* services on the box than in the database, and dispatched service-change.
C21_Witness ==
    /\ Repeated
    /\ IdsOf(last.fetched) \cap reportedNew # {}
    /\ Len(last.fetched) < Len(last.stored)
    /\ ServiceChanges # <<>>

====
